---------------------------- MODULE Spec2Model ----------------------------
(***************************************************************************)
(* Model of the voice-transformation effect pipeline                       *)
(* (src/voice_transformation.py): process_audio and the two presets        *)
(* simulate_old_radio and simulate_walkie_talkie, one action per stage,    *)
(* called either directly or by the HTTP server (src/api_server.py), whose *)
(* handlers and cleanup threads are modelled around it.                    *)
(*                                                                         *)
(* Numbers.  Samples are fixed-point integers, One = 1.0.  Real-valued     *)
(* parameters (distortion_amount, noise_factor, dust_level, static_level,  *)
(* compression_ratio) are carried in thousandths (1.2 is 1200); cutoffs    *)
(* and sample rates are in Hz; attack_ms, release_ms and bit_depth are     *)
(* the integers of the source.                                             *)
(*                                                                         *)
(* Library calls whose numeric result cannot be computed here (scipy's     *)
(* Butterworth design and filtfilt, the Gaussian draws of numpy) are       *)
(* nondeterministic choices among bounded families of buffers of the       *)
(* length the library returns; their argument checks (the ValueError of    *)
(* scipy.signal.butter for a critical frequency outside 0 < Wn < 1 or      *)
(* Wn[0] >= Wn[1], and of filtfilt for an input no longer than padlen)     *)
(* are modelled as the library states them.                                *)
(***************************************************************************)
EXTENDS Integers, Sequences, FiniteSets, TLC

VARIABLES
    pc,            \* position in process_audio / the running preset
    effect_type,   \* process_audio's effect_type argument
    style_params,  \* the caller's override map (**style_params)
    sr,            \* sample rate of the loaded file
    input0,        \* the buffer librosa.load returned
    audio,         \* the local variable `audio` of the running preset
    p,             \* the preset's resolved parameters (its locals)
    returned,      \* the preset returned a buffer to process_audio
    out_written,   \* sf.write(output_file, ...) ran in this call
    err,           \* the exception that ended the call, "" if none
    diag,          \* diagnostics printed by the dust block
    fs,            \* existing paths among resources/ and the dust file
    dust_len,      \* number of samples in resources/dusteffect.wav
    comp,          \* apply_compression's locals when it last ran: attack,
                   \* release and gain_envelope
    trace,         \* history: stages that ran to completion, in order
    stage_in,      \* history: the buffer the last completed stage consumed
    handed,        \* history: the buffer that stage was handed, i.e. what
                   \* the stage before it produced (the loaded buffer at first)
    prev_out,      \* history: the buffer the last completed stage produced
    program,       \* the entry point that runs: "script" (process_audio
                   \* called directly) or "server" (api_server.py)
    uploads,       \* ids of the files in uploads/
    next_id,       \* stands for uuid4: the next id never used before
    mp3,           \* results/<id>_<effect>.mp3: 0 if absent, else the number
                   \* of the transform that wrote it
    timers,        \* the sleeping delete_files threads, in starting order
    served,        \* number of transforms that succeeded so far
    req,           \* the request the server is handling
    response       \* HTTP status of the answer, 0 while there is none

server_vars ==
    <<program, uploads, next_id, mp3, timers, served, req, response>>

vars == <<pc, effect_type, style_params, sr, input0, audio, p, returned,
          out_written, err, diag, fs, dust_len, comp, trace, stage_in,
          handed, prev_out, server_vars>>

---------------------------------------------------------------------------
(* Fixed point and small helpers *)

One == 2^10

Abs(x) == IF x < 0 THEN -x ELSE x

Min2(a, b) == IF a < b THEN a ELSE b

Max2(a, b) == IF a > b THEN a ELSE b

\* a / b rounded to the nearest integer, halves away from zero (b > 0)
RoundDiv(a, b) == IF a >= 0 THEN (2 * a + b) \div (2 * b)
                            ELSE -((2 * (-a) + b) \div (2 * b))

\* numpy.round of a / b: nearest integer, halves to the even one (b > 0)
RoundHalfEven(a, b) ==
    LET q == a \div b
        r == a % b
    IN  IF 2 * r < b THEN q
        ELSE IF 2 * r > b THEN q + 1
        ELSE IF q % 2 = 0 THEN q ELSE q + 1

\* int(a / b): the quotient truncated toward zero (b > 0)
TruncDiv(a, b) == IF a >= 0 THEN a \div b ELSE -((-a) \div b)

\* ceil(a / b) for a >= 0, b > 0
CeilDiv(a, b) == (a + b - 1) \div b

\* np.max(np.abs(x)); 0 stands for the empty buffer
Peak(x) ==
    LET m[i \in 0..Len(x)] ==
            IF i = 0 THEN 0 ELSE Max2(m[i - 1], Abs(x[i]))
    IN  m[Len(x)]

\* audio.std() == 0: every sample has the same value
StdIsZero(x) == \A i \in 1..Len(x) : x[i] = x[1]

---------------------------------------------------------------------------
(* Bounds of the model and the inputs it draws from *)

ShortLen == 20
LongLen == 30
NoiseAmp == 8
StaticAmp == 30
ClickAmp == 100
ShortDust == 10
LongDust == 50
MaxFiles == 2
MaxTransforms == 2

SampleRates == {4000, 8000, 22050}

\* test signals: a tone alternating +a, -a
Tone(n, a) == [i \in 1..n |-> IF i % 2 = 1 THEN a ELSE -a]

InputBuffers ==
    { Tone(LongLen, 0), Tone(LongLen, One \div 4), Tone(LongLen, One),
      Tone(ShortLen, One) }

EffectNames == {"radio", "walkie", "fm"}

NoParams == [n \in {} |-> 0]

OverrideMaps ==
    { NoParams,
      [low_cutoff |-> 20000, high_cutoff |-> 21000],
      [high_cutoff |-> 200],
      [high_cutoff |-> 1500],
      [low_cutoff |-> 0],
      [sample_rate |-> 0],
      [use_dust_effect |-> FALSE],
      [dust_level |-> 300, use_dust_effect |-> TRUE],
      [noise_factor |-> 0],
      [static_level |-> 0],
      [bit_depth |-> 0],
      [bit_depth |-> -1],
      [bit_depth |-> 64],
      [gain |-> 5],
      [sr |-> 8000],
      [attack_ms |-> 1, release_ms |-> 1],
      [attack_ms |-> -1, release_ms |-> -1],
      [compression_ratio |-> 0] }

\* responses of a filter to the test tones: removed, halved, passed
FilterGains == {0, One \div 2, One}

NoiseDraws == {-NoiseAmp, 0, NoiseAmp}

StaticDraws == {-StaticAmp, StaticAmp}

ClickDraws == {ClickAmp}

DustLens == {0, ShortDust, LongLen, LongDust}

FsStates ==
    { <<{}, 0>>, <<{"resources"}, 0>> }
    \cup { <<{"resources", "resources/dusteffect.wav"}, n>> : n \in DustLens }

\* the server is started in a directory without resources/ or in one where
\* setup_dust_effect.py has put the background file
ServerFsStates ==
    { <<{}, 0>>, <<{"resources", "resources/dusteffect.wav"}, ShortDust>> }

\* the server's files: ids uuid4 hands out, and what librosa.load decodes
\* from the file with that id
FileIds == 1..MaxFiles

Decoded(id) ==
    [rate |-> 8000,
     samples |-> IF id = 2 THEN Tone(LongLen, One \div 4)
                 ELSE Tone(LongLen, 0)]

\* the style_params objects of the request bodies (none: the field is
\* omitted)
StyleBodies ==
    { NoParams,
      [high_cutoff |-> 1500, dust_level |-> 300, use_dust_effect |-> FALSE] }

\* status codes of requests.get on the file_url
UrlStatuses == {200, 404}

---------------------------------------------------------------------------
(* The stages (src/voice_transformation.py) *)

Get(params, name, default) ==
    IF name \in DOMAIN params THEN params[name] ELSE default

\* mutant: a filter design that does not check its critical frequencies
butter_band_ok_unchecked(low_cutoff, high_cutoff, rate) == TRUE

\* scipy.signal.butter(N, [low, high], btype='band') accepts its arguments
butter_band_ok(low_cutoff, high_cutoff, rate) ==
    /\ 0 < low_cutoff
    /\ low_cutoff < high_cutoff
    /\ 2 * high_cutoff < rate

\* scipy.signal.butter(N, Wn, btype='high' | 'low') accepts its argument
butter_ok(cutoff, rate) == 0 < cutoff /\ 2 * cutoff < rate

\* scipy.signal.filtfilt accepts x: longer than padlen = 3 * max(len(a), len(b))
filtfilt_ok(x, ntaps) == Len(x) > 3 * ntaps

\* what filtfilt may return for x: a buffer of the same length
Filtered(x) == { [i \in 1..Len(x) |-> (x[i] * g) \div One] : g \in FilterGains }

apply_bandpass_filter(x, rate, low_cutoff, high_cutoff) == Filtered(x)

apply_highpass_filter(x, rate, cutoff) == Filtered(x)

apply_lowpass_filter(x, rate, cutoff) == Filtered(x)

apply_distortion(x, amount) ==
    [i \in 1..Len(x) |->
        Max2(-One, Min2(One, RoundDiv(x[i] * amount, 1000)))]

\* noise = normal(0, std) * noise_factor is 0 when std or the factor is 0;
\* z is the drawn value (the same at every sample)
add_noise(x, noise_factor, z) ==
    IF noise_factor = 0 \/ StdIsZero(x) THEN x
    ELSE [i \in 1..Len(x) |-> x[i] + z]

\* int(sr * ms / 1000) with the sr = 22050 the function fixes
CompressorRate == 22050
ms_to_samples(ms) == TruncDiv(CompressorRate * ms, 1000)

\* gains of the compressor are fixed-point with GainOne = 1.0
GainOne == 2^16

\* level > threshold, threshold = 0.3
above_threshold(level) == 10 * level > 3 * One

\* ((level - threshold) * (1 - 1/ratio)) / level, in gain units
gain_reduction(level, ratio) ==
    LET k == ((ratio - 1000) * GainOne) \div ratio
    IN  ((10 * level - 3 * One) * k) \div (10 * level)

\* min(prev + (1 - prev) / attack, target) for prev < 1.  attack = 0: the
\* quotient of numpy scalars is +inf (a warning, no exception) and min
\* returns the target
attack_step(prev, attack, target) ==
    IF attack > 0 THEN Min2(prev + (GainOne - prev) \div attack, target)
    ELSE IF attack = 0 THEN target
    ELSE Min2(prev - (GainOne - prev) \div (-attack), target)

\* max(prev - prev / release, target) for prev > 0.  release = 0: the
\* quotient is +inf and max returns the target
release_step(prev, release, target) ==
    IF release > 0 THEN Max2(prev - prev \div release, target)
    ELSE IF release = 0 THEN target
    ELSE Max2(prev + prev \div (-release), target)

\* gain_envelope[i] of apply_compression from gain_envelope[i-1] = prev
\* (i counts from 1: the source's i > 0 is i > 1 here); ratio # 0
envelope_step(level, i, prev, ratio, attack, release) ==
    IF ~above_threshold(level) THEN GainOne
    ELSE LET g == gain_reduction(level, ratio)
         IN  IF i = 1 THEN GainOne - g
             ELSE IF g > prev
             THEN attack_step(prev, attack, GainOne - g)
             ELSE release_step(prev, release, GainOne - g)

\* the gain envelope of apply_compression, sample by sample
RECURSIVE envelope_from(_, _, _, _, _, _)
envelope_from(x, i, acc, ratio, attack, release) ==
    IF i > Len(x) THEN acc
    ELSE LET prev == IF i = 1 THEN GainOne ELSE acc[i - 1]
             e == envelope_step(Abs(x[i]), i, prev, ratio, attack, release)
         IN  envelope_from(x, i + 1, Append(acc, e), ratio, attack, release)

gain_envelope(x, ratio, attack, release) ==
    envelope_from(x, 1, <<>>, ratio, attack, release)

\* 1/ratio is evaluated, and raises ZeroDivisionError for ratio = 0, at the
\* first sample above the threshold
compression_raises(x, ratio) ==
    ratio = 0 /\ \E i \in 1..Len(x) : above_threshold(Abs(x[i]))

\* the locals of apply_compression after its loop
compression_locals(x, ratio, attack_ms, release_ms) ==
    [attack |-> ms_to_samples(attack_ms),
     release |-> ms_to_samples(release_ms),
     gain_envelope |-> gain_envelope(x, ratio, ms_to_samples(attack_ms),
                                     ms_to_samples(release_ms))]

apply_compression(x, ratio, attack_ms, release_ms) ==
    LET e == gain_envelope(x, ratio, ms_to_samples(attack_ms),
                           ms_to_samples(release_ms))
        c == [i \in 1..Len(x) |-> RoundDiv(x[i] * e[i], GainOne)]
        peak == Peak(c)
    IN  IF peak = 0 THEN c
        ELSE IF 95 * One < 200 * peak
        THEN [i \in 1..Len(x) |-> RoundDiv(c[i] * One * 95, peak * 100)]
        ELSE [i \in 1..Len(x) |-> 2 * c[i]]

\* max_val = 2**(bits-1); np.round(audio * max_val) / max_val.  With
\* One = 2^10 the quantization step is 2^(11-bits) units; from 11 bits on
\* audio * max_val is already an integer and the buffer comes back as is
apply_bit_crusher(x, bits) ==
    IF bits > 10 THEN x
    ELSE LET step == 2^(11 - bits)
         IN  [i \in 1..Len(x) |-> RoundHalfEven(x[i], step) * step]

\* static * envelope is 0 when static_level is 0; the envelope stays in
\* [0.5, 1] for static_freq = 0.3; z is the drawn value
add_static_effect(x, static_level, z) ==
    IF static_level = 0 THEN x
    ELSE [i \in 1..Len(x) |-> x[i] + z]

\* mutant: the click length rounded to the nearest sample
num_click_samples_rounded(rate) == RoundHalfEven(3 * rate, 100)

\* num_click_samples = int(click_duration * sr), click_duration = 0.03
num_click_samples(rate) == (3 * rate) \div 100

\* the click's butter(2, [800, 3000] / nyquist) and filtfilt accept their inputs
ptt_ok(rate) ==
    /\ butter_band_ok(800, 3000, rate)
    /\ num_click_samples(rate) > 3 * 5

\* c is the click's drawn amplitude; the click decays, the end click is the
\* click reversed and scaled by 0.15
add_ptt_artifacts(x, rate, c) ==
    LET k == num_click_samples(rate)
        click == [i \in 1..k |-> IF 2 * i <= k THEN c ELSE c \div 2]
        end_click == [i \in 1..k |-> RoundDiv(click[k + 1 - i] * 15, 100)]
    IN  click \o x \o end_click

\* librosa.resample: ceil(n * target_sr / orig_sr) samples; values taken
\* from the nearest earlier input sample
resample(x, orig_sr, target_sr) ==
    LET n == CeilDiv(Len(x) * target_sr, orig_sr)
    IN  [i \in 1..n |-> x[Min2(Len(x), ((i - 1) * orig_sr) \div target_sr + 1)]]

reduce_sample_rate(x, original_sr, target_sr) ==
    resample(resample(x, original_sr, target_sr), target_sr, original_sr)

\* the background file's samples (setup_dust_effect normalizes to 0.8)
DustAmp == (One * 8) \div 10
Background(n) == Tone(n, DustAmp)

\* np.tile(background_audio, repetitions)
tile(background_audio, repetitions) ==
    [i \in 1..(repetitions * Len(background_audio)) |->
        background_audio[((i - 1) % Len(background_audio)) + 1]]

\* background_audio is not empty: with an empty one the division in
\* `repetitions` raises
mix_with_background(x, background_audio, background_level) ==
    LET bg == IF Len(background_audio) < Len(x)
              THEN SubSeq(tile(background_audio,
                               CeilDiv(Len(x), Len(background_audio))),
                          1, Len(x))
              ELSE IF Len(background_audio) > Len(x)
              THEN SubSeq(background_audio, 1, Len(x))
              ELSE background_audio
        mixed == [i \in 1..Len(x) |->
                  x[i] + RoundDiv(bg[i] * background_level, 1000)]
        peak == Peak(mixed)
    IN  IF peak > One
        THEN [i \in 1..Len(x) |-> RoundDiv(mixed[i] * One * 95, peak * 100)]
        ELSE mixed

---------------------------------------------------------------------------
(* process_audio and simulate_old_radio *)

RadioDefaults ==
    [low_cutoff |-> 300, high_cutoff |-> 3000, distortion_amount |-> 1200,
     noise_factor |-> 8, sample_rate |-> 8000, dust_level |-> 200,
     use_dust_effect |-> TRUE]

RadioParams(params) ==
    [n \in DOMAIN RadioDefaults |-> Get(params, n, RadioDefaults[n])]

WalkieDefaults ==
    [low_cutoff |-> 300, high_cutoff |-> 4000, distortion_amount |-> 1050,
     noise_factor |-> 10, static_level |-> 30, compression_ratio |-> 8000,
     attack_ms |-> 5, release_ms |-> 150, bit_depth |-> 8]

WalkieParams(params) ==
    [n \in DOMAIN WalkieDefaults |-> Get(params, n, WalkieDefaults[n])]

NoComp == [attack |-> 0, release |-> 0, gain_envelope |-> <<>>]

ResultNames == FileIds \X {"radio", "walkie"}

\* a request as its handler has read it so far: the handler, the effect,
\* the file id, the body's style_params and, once transform_url has fetched
\* the file_url, the status it got
NoReq ==
    [handler |-> "", effect |-> "", file_id |-> 0, body |-> NoParams,
     url_status |-> 0]

Init ==
    /\ pc = "idle"
    /\ effect_type = ""
    /\ style_params = NoParams
    /\ sr = 0
    /\ input0 = <<>>
    /\ audio = <<>>
    /\ p = NoParams
    /\ returned = FALSE
    /\ out_written = FALSE
    /\ err = ""
    /\ diag = <<>>
    /\ comp = NoComp
    /\ trace = <<>>
    /\ stage_in = <<>>
    /\ handed = <<>>
    /\ prev_out = <<>>
    /\ \/ /\ program = "script"
          /\ \E f \in FsStates : fs = f[1] /\ dust_len = f[2]
       \/ /\ program = "server"
          /\ \E f \in ServerFsStates : fs = f[1] /\ dust_len = f[2]
    /\ uploads = {}
    /\ next_id = 1
    /\ mp3 = [n \in ResultNames |-> 0]
    /\ timers = <<>>
    /\ served = 0
    /\ req = NoReq
    /\ response = 0

\* process_audio(input_file, output_file, effect_type, **style_params),
\* up to librosa.load, called directly
Invoke ==
    /\ program = "script"
    /\ pc = "idle"
    /\ \E e \in EffectNames, rate \in SampleRates,
          buf \in InputBuffers, sp \in OverrideMaps :
          /\ effect_type' = e
          /\ sr' = rate
          /\ input0' = buf
          /\ audio' = buf
          /\ prev_out' = buf
          /\ style_params' = sp
    /\ pc' = "dispatch"
    /\ UNCHANGED <<p, returned, out_written, err, diag, fs, dust_len, comp,
                   trace, stage_in, handed, server_vars>>

Fail(e) ==
    /\ pc' = "failed"
    /\ err' = e
    /\ UNCHANGED <<effect_type, style_params, sr, input0, audio, p, returned,
                   out_written, diag, fs, dust_len, comp, trace, stage_in,
                   handed, prev_out, server_vars>>

\* a stage ran: it consumed x and the local `audio` is rebound to y
Ran(stage, x, y, next) ==
    /\ trace' = Append(trace, stage)
    /\ stage_in' = x
    /\ handed' = prev_out
    /\ prev_out' = y
    /\ audio' = y
    /\ pc' = next
    /\ UNCHANGED <<effect_type, style_params, sr, input0, p, returned,
                   out_written, err, diag, fs, dust_len, comp, server_vars>>

\* the names the call simulate_*(audio, sr, **style_params) already binds
PositionalNames == {"audio", "sr"}

\* mutant: an unrecognized effect name falls through to the radio preset
preset_of_default(e) == IF e = "walkie" THEN "walkie" ELSE "radio"

\* the if / elif / else of process_audio
preset_of(e) ==
    IF e = "radio" THEN "radio"
    ELSE IF e = "walkie" THEN "walkie"
    ELSE "none"

Dispatch ==
    /\ pc = "dispatch"
    /\ \/ /\ preset_of(effect_type) = "radio"
          /\ DOMAIN style_params \cap PositionalNames = {}
          /\ p' = RadioParams(style_params)
          /\ pc' = "bandpass"
          /\ UNCHANGED <<effect_type, style_params, sr, input0, audio,
                         returned, out_written, err, diag, fs, dust_len, comp,
                         trace, stage_in, handed, prev_out, server_vars>>
       \/ /\ preset_of(effect_type) = "walkie"
          /\ DOMAIN style_params \cap PositionalNames = {}
          /\ p' = WalkieParams(style_params)
          /\ pc' = "highpass"
          /\ UNCHANGED <<effect_type, style_params, sr, input0, audio,
                         returned, out_written, err, diag, fs, dust_len, comp,
                         trace, stage_in, handed, prev_out, server_vars>>
       \/ /\ preset_of(effect_type) # "none"
          /\ DOMAIN style_params \cap PositionalNames # {}
          /\ Fail("TypeError")
       \/ /\ preset_of(effect_type) = "none"
          /\ Fail("ValueError")

Radio_bandpass ==
    /\ pc = "bandpass"
    /\ \/ /\ butter_band_ok(p.low_cutoff, p.high_cutoff, sr)
          /\ filtfilt_ok(audio, 9)
          /\ \E y \in apply_bandpass_filter(audio, sr, p.low_cutoff,
                                            p.high_cutoff) :
                Ran("bandpass", audio, y, "r_distort")
       \/ /\ ~(butter_band_ok(p.low_cutoff, p.high_cutoff, sr)
                /\ filtfilt_ok(audio, 9))
          /\ Fail("ValueError")

Radio_distort ==
    /\ pc = "r_distort"
    /\ Ran("distort", audio, apply_distortion(audio, p.distortion_amount),
           "r_noise")

Radio_noise ==
    /\ pc = "r_noise"
    /\ \E z \in NoiseDraws :
          Ran("add_noise", audio, add_noise(audio, p.noise_factor, z),
              "degrade")

\* mutant: degrade also when the target rate equals the source rate
degrade_wanted_le(target_sr, rate) == target_sr # 0 /\ target_sr <= rate

\* if target_sample_rate and target_sample_rate < sr
degrade_wanted(target_sr, rate) == target_sr # 0 /\ target_sr < rate

Radio_degrade ==
    /\ pc = "degrade"
    /\ \/ /\ degrade_wanted(p.sample_rate, sr)
          /\ Ran("degrade", audio,
                 reduce_sample_rate(audio, sr, p.sample_rate), "dust")
       \/ /\ ~degrade_wanted(p.sample_rate, sr)
          /\ pc' = "dust"
          /\ UNCHANGED <<effect_type, style_params, sr, input0, audio, p,
                         returned, out_written, err, diag, fs, dust_len, comp,
                         trace, stage_in, handed, prev_out, server_vars>>

DustPath == "resources/dusteffect.wav"

\* mutant: the dust file is loaded without checking that it exists
dust_branch_unchecked(use_dust_effect, file_exists, n) ==
    IF ~use_dust_effect THEN "off"
    ELSE IF file_exists /\ n > 0 THEN "mix"
    ELSE "error"

\* which way the dust block goes: use_dust_effect off; the file exists and
\* is mixed; the file exists but mixing raises inside the try (an empty
\* background: len(audio) / len(background_audio) divides by zero); the
\* file is missing
dust_branch(use_dust_effect, file_exists, n) ==
    IF ~use_dust_effect THEN "off"
    ELSE IF file_exists THEN (IF n > 0 THEN "mix" ELSE "error")
    ELSE "warn"

Radio_dust ==
    /\ pc = "dust"
    /\ returned' = TRUE
    /\ pc' = "write"
    /\ UNCHANGED <<effect_type, style_params, sr, input0, p, out_written, err,
                   dust_len, comp, server_vars>>
    /\ LET branch == dust_branch(p.use_dust_effect, DustPath \in fs, dust_len)
       IN  \/ /\ branch = "off"
              /\ UNCHANGED <<audio, diag, fs, trace, stage_in, handed,
                             prev_out>>
           \/ /\ branch = "mix"
              /\ LET y == mix_with_background(audio, Background(dust_len),
                                              p.dust_level)
                 IN  /\ audio' = y
                     /\ prev_out' = y
                     /\ stage_in' = audio
                     /\ handed' = prev_out
                     /\ trace' = Append(trace, "mix_background")
              /\ diag' = Append(diag, "Added dust effect")
              /\ fs' = fs \cup {"resources"}
           \/ /\ branch = "error"
              /\ diag' = Append(diag, "Error adding dust effect")
              /\ fs' = fs \cup {"resources"}
              /\ UNCHANGED <<audio, trace, stage_in, handed, prev_out>>
           \/ /\ branch = "warn"
              /\ diag' = Append(diag, "Warning: Dust effect file not found")
              /\ fs' = fs \cup {"resources"}
              /\ UNCHANGED <<audio, trace, stage_in, handed, prev_out>>

---------------------------------------------------------------------------
(* simulate_walkie_talkie *)

Walkie_highpass ==
    /\ pc = "highpass"
    /\ \/ /\ butter_ok(p.low_cutoff, sr)
          /\ filtfilt_ok(audio, 5)
          /\ \E y \in apply_highpass_filter(audio, sr, p.low_cutoff) :
                Ran("highpass", audio, y, "lowpass")
       \/ /\ ~(butter_ok(p.low_cutoff, sr) /\ filtfilt_ok(audio, 5))
          /\ Fail("ValueError")

\* mutant: the low-pass filter is applied to the loaded buffer instead of
\* the high-pass filter's output
Walkie_lowpass_stale ==
    /\ pc = "lowpass"
    /\ \/ /\ butter_ok(p.high_cutoff, sr)
          /\ filtfilt_ok(input0, 5)
          /\ \E y \in apply_lowpass_filter(input0, sr, p.high_cutoff) :
                Ran("lowpass", input0, y, "compress")
       \/ /\ ~(butter_ok(p.high_cutoff, sr) /\ filtfilt_ok(input0, 5))
          /\ Fail("ValueError")

Walkie_lowpass ==
    /\ pc = "lowpass"
    /\ \/ /\ butter_ok(p.high_cutoff, sr)
          /\ filtfilt_ok(audio, 5)
          /\ \E y \in apply_lowpass_filter(audio, sr, p.high_cutoff) :
                Ran("lowpass", audio, y, "compress")
       \/ /\ ~(butter_ok(p.high_cutoff, sr) /\ filtfilt_ok(audio, 5))
          /\ Fail("ValueError")

Walkie_compress ==
    /\ pc = "compress"
    /\ \/ /\ ~compression_raises(audio, p.compression_ratio)
          /\ comp' = compression_locals(audio, p.compression_ratio,
                                        p.attack_ms, p.release_ms)
          /\ LET y == apply_compression(audio, p.compression_ratio,
                                        p.attack_ms, p.release_ms)
             IN  /\ audio' = y
                 /\ prev_out' = y
          /\ trace' = Append(trace, "compress")
          /\ stage_in' = audio
          /\ handed' = prev_out
          /\ pc' = "w_distort"
          /\ UNCHANGED <<effect_type, style_params, sr, input0, p, returned,
                         out_written, err, diag, fs, dust_len, server_vars>>
       \/ /\ compression_raises(audio, p.compression_ratio)
          /\ Fail("ZeroDivisionError")

Walkie_distort ==
    /\ pc = "w_distort"
    /\ Ran("distort", audio, apply_distortion(audio, p.distortion_amount),
           "bitcrush")

Walkie_bitcrush ==
    /\ pc = "bitcrush"
    /\ Ran("bitcrush", audio, apply_bit_crusher(audio, p.bit_depth), "ptt")

Walkie_ptt ==
    /\ pc = "ptt"
    /\ \/ /\ ptt_ok(sr)
          /\ \E c \in ClickDraws :
                Ran("add_ptt_clicks", audio, add_ptt_artifacts(audio, sr, c),
                    "w_noise")
       \/ /\ ~ptt_ok(sr)
          /\ Fail("ValueError")

Walkie_noise ==
    /\ pc = "w_noise"
    /\ \E z \in NoiseDraws :
          Ran("add_noise", audio, add_noise(audio, p.noise_factor, z),
              "static")

Walkie_static ==
    /\ pc = "static"
    /\ \E z \in StaticDraws :
          /\ trace' = Append(trace, "add_static")
          /\ stage_in' = audio
          /\ handed' = prev_out
          /\ prev_out' = add_static_effect(audio, p.static_level, z)
          /\ audio' = add_static_effect(audio, p.static_level, z)
    /\ returned' = TRUE
    /\ pc' = "write"
    /\ UNCHANGED <<effect_type, style_params, sr, input0, p, out_written, err,
                   diag, fs, dust_len, comp, server_vars>>

\* sf.write(output_file, processed_audio, sr)
Write ==
    /\ pc = "write"
    /\ out_written' = TRUE
    /\ pc' = "done"
    /\ UNCHANGED <<effect_type, style_params, sr, input0, audio, p, returned,
                   err, diag, fs, dust_len, comp, trace, stage_in, handed,
                   prev_out, server_vars>>

\* the direct call is over (returned or raised); the next call starts
\* afresh
Return ==
    /\ program = "script"
    /\ pc \in {"done", "failed"}
    /\ pc' = "idle"
    /\ effect_type' = ""
    /\ style_params' = NoParams
    /\ sr' = 0
    /\ input0' = <<>>
    /\ audio' = <<>>
    /\ p' = NoParams
    /\ returned' = FALSE
    /\ out_written' = FALSE
    /\ err' = ""
    /\ diag' = <<>>
    /\ comp' = NoComp
    /\ trace' = <<>>
    /\ stage_in' = <<>>
    /\ handed' = <<>>
    /\ prev_out' = <<>>
    /\ UNCHANGED <<fs, dust_len, server_vars>>

---------------------------------------------------------------------------
(* The HTTP server (src/api_server.py).  Its handlers are coroutines that  *)
(* never await while they work, so the event loop runs one handler at a    *)
(* time; the delete_files threads run beside it.                           *)

\* the fields of StyleParams; pydantic drops any other key of the body
StyleFields ==
    {"noise_factor", "distortion_amount", "low_cutoff", "high_cutoff",
     "sample_rate", "compression_ratio", "attack_ms", "release_ms",
     "bit_depth", "static_level"}

\* request.style_params.dict(exclude_none=True), {} without style_params
style_dict(body) ==
    [n \in (DOMAIN body) \cap StyleFields |-> body[n]]

\* the server waits for a request
Listening == program = "server" /\ pc = "idle" /\ response = 0

\* the handler answers (returns or raises HTTPException) with this status
\* without having called process_audio
Answer(r, status) ==
    /\ req' = r
    /\ response' = status
    /\ UNCHANGED pc

\* the handler calls process_audio(input_file, wav_output, effect,
\* **style_params) on the file with this id: up to librosa.load
CallProcessAudio(r) ==
    /\ req' = r
    /\ effect_type' = r.effect
    /\ style_params' = style_dict(r.body)
    /\ sr' = Decoded(r.file_id).rate
    /\ input0' = Decoded(r.file_id).samples
    /\ audio' = Decoded(r.file_id).samples
    /\ prev_out' = Decoded(r.file_id).samples
    /\ pc' = "dispatch"
    /\ UNCHANGED <<p, returned, out_written, err, diag, fs, dust_len, comp,
                   trace, stage_in, handed, program, mp3, timers, served,
                   response>>

\* what a handler that answers at once leaves alone
HandlerFrame ==
    UNCHANGED <<effect_type, style_params, sr, input0, audio, p, returned,
                out_written, err, diag, fs, dust_len, comp, trace, stage_in,
                handed, prev_out, program, mp3, timers, served>>

\* upload_audio
Api_upload ==
    /\ Listening
    /\ \/ /\ Answer([NoReq EXCEPT !.handler = "upload"], 400)
          /\ HandlerFrame
          /\ UNCHANGED <<uploads, next_id>>
       \/ /\ next_id <= MaxFiles
          /\ uploads' = uploads \cup {next_id}
          /\ next_id' = next_id + 1
          /\ Answer([NoReq EXCEPT !.handler = "upload", !.file_id = next_id],
                    200)
          /\ HandlerFrame

\* transform_audio called with a file_id (0: with neither file_id nor
\* file_url), up to its call of process_audio
Api_transform ==
    /\ Listening
    /\ \E id \in FileIds \cup {0} :
          LET r == [NoReq EXCEPT !.handler = "transform", !.file_id = id]
          IN  \/ /\ id = 0
                 /\ Answer(r, 400)
                 /\ HandlerFrame
                 /\ UNCHANGED <<uploads, next_id>>
              \/ /\ id # 0
                 /\ id \notin uploads
                 /\ Answer(r, 404)
                 /\ HandlerFrame
                 /\ UNCHANGED <<uploads, next_id>>
              \/ /\ id \in uploads
                 /\ \E e \in EffectNames \ {"radio", "walkie"} :
                       Answer([r EXCEPT !.effect = e], 400)
                 /\ HandlerFrame
                 /\ UNCHANGED <<uploads, next_id>>
              \/ /\ id \in uploads
                 /\ served < MaxTransforms
                 /\ \E e \in {"radio", "walkie"}, body \in StyleBodies :
                       CallProcessAudio([r EXCEPT !.effect = e,
                                                  !.body = body])
                 /\ UNCHANGED <<uploads, next_id>>

\* transform_url (and transform_audio called with a file_url only, which
\* hands the request to it), up to its call of process_audio.  A status
\* other than 200 raises HTTPException(400) inside the try block, whose
\* `except Exception` catches it, removes the request's upload (there is
\* none yet) and raises HTTPException(500)
Api_transform_url ==
    /\ Listening
    /\ \E e \in EffectNames :
          LET r == [NoReq EXCEPT !.handler = "transform_url", !.effect = e,
                                 !.file_id = next_id]
          IN  \/ /\ e \notin {"radio", "walkie"}
                 /\ Answer(r, 400)
                 /\ HandlerFrame
                 /\ UNCHANGED <<uploads, next_id>>
              \/ /\ e \in {"radio", "walkie"}
                 /\ \E status \in UrlStatuses \ {200} :
                       Answer([r EXCEPT !.url_status = status], 500)
                 /\ HandlerFrame
                 /\ UNCHANGED <<uploads, next_id>>
              \/ /\ e \in {"radio", "walkie"}
                 /\ next_id <= MaxFiles
                 /\ served < MaxTransforms
                 /\ uploads' = uploads \cup {next_id}
                 /\ next_id' = next_id + 1
                 /\ \E body \in StyleBodies :
                       CallProcessAudio([r EXCEPT !.url_status = 200,
                                                  !.body = body])

\* process_audio returned: convert_to_mp3, remove the WAV file, start the
\* cleanup thread (schedule_cleanup), answer
Api_transform_done ==
    /\ program = "server"
    /\ pc = "done"
    /\ response = 0
    /\ mp3' = [mp3 EXCEPT ![<<req.file_id, req.effect>>] = served + 1]
    /\ timers' = Append(timers, [input |-> req.file_id,
                                 output |-> <<req.file_id, req.effect>>,
                                 by |-> served + 1])
    /\ served' = served + 1
    /\ response' = 200
    /\ UNCHANGED <<pc, effect_type, style_params, sr, input0, audio, p,
                   returned, out_written, err, diag, fs, dust_len, comp,
                   trace, stage_in, handed, prev_out, program, uploads,
                   next_id, req>>

\* process_audio raised: `except Exception` answers 500; transform_url
\* first removes the file it downloaded
Api_transform_failed ==
    /\ program = "server"
    /\ pc = "failed"
    /\ response = 0
    /\ uploads' = IF req.handler = "transform_url"
                  THEN uploads \ {req.file_id} ELSE uploads
    /\ response' = 500
    /\ UNCHANGED <<pc, effect_type, style_params, sr, input0, audio, p,
                   returned, out_written, err, diag, fs, dust_len, comp,
                   trace, stage_in, handed, prev_out, program, next_id, mp3,
                   timers, served, req>>

\* download_file
Api_download ==
    /\ Listening
    /\ \E n \in ResultNames :
          Answer([NoReq EXCEPT !.handler = "download", !.file_id = n[1],
                               !.effect = n[2]],
                 IF mp3[n] # 0 THEN 200 ELSE 404)
    /\ HandlerFrame
    /\ UNCHANGED <<uploads, next_id>>

\* the answer is sent; the handler's locals are gone
Api_respond ==
    /\ program = "server"
    /\ response # 0
    /\ pc' = "idle"
    /\ effect_type' = ""
    /\ style_params' = NoParams
    /\ sr' = 0
    /\ input0' = <<>>
    /\ audio' = <<>>
    /\ p' = NoParams
    /\ returned' = FALSE
    /\ out_written' = FALSE
    /\ err' = ""
    /\ diag' = <<>>
    /\ comp' = NoComp
    /\ trace' = <<>>
    /\ stage_in' = <<>>
    /\ handed' = <<>>
    /\ prev_out' = <<>>
    /\ req' = NoReq
    /\ response' = 0
    /\ UNCHANGED <<fs, dust_len, program, uploads, next_id, mp3, timers,
                   served>>

\* delete_files of the thread that has slept longest: its hour is over.
\* Every thread sleeps the same delay, so they wake in starting order
Timer_delete_files ==
    /\ program = "server"
    /\ timers # <<>>
    /\ uploads' = uploads \ {Head(timers).input}
    /\ mp3' = [mp3 EXCEPT ![Head(timers).output] = 0]
    /\ timers' = Tail(timers)
    /\ UNCHANGED <<pc, effect_type, style_params, sr, input0, audio, p,
                   returned, out_written, err, diag, fs, dust_len, comp,
                   trace, stage_in, handed, prev_out, program, next_id,
                   served, req, response>>

Next ==
    \/ Invoke
    \/ Dispatch
    \/ Radio_bandpass
    \/ Radio_distort
    \/ Radio_noise
    \/ Radio_degrade
    \/ Radio_dust
    \/ Walkie_highpass
    \/ Walkie_lowpass
    \/ Walkie_compress
    \/ Walkie_distort
    \/ Walkie_bitcrush
    \/ Walkie_ptt
    \/ Walkie_noise
    \/ Walkie_static
    \/ Write
    \/ Return
    \/ Api_upload
    \/ Api_transform
    \/ Api_transform_url
    \/ Api_transform_done
    \/ Api_transform_failed
    \/ Api_download
    \/ Api_respond
    \/ Timer_delete_files

Spec == Init /\ [][Next]_vars

---------------------------------------------------------------------------
(* Properties *)

IsPrefix(s, t) == Len(s) <= Len(t) /\ SubSeq(t, 1, Len(s)) = s

Last(s) == s[Len(s)]

InPreset == pc \notin {"idle", "dispatch"}

RadioStages == <<"bandpass", "distort", "add_noise">>

\* the complete stage sequences a radio run may have
RadioRuns ==
    { RadioStages \o d \o m :
        d \in {<<>>, <<"degrade">>}, m \in {<<>>, <<"mix_background">>} }

\* C1: in every radio invocation the stages run in the order bandpass,
\* distort, add_noise, then degrade only if the target rate is lower than
\* the source rate, then mix_background only if use_dust_effect is enabled
\* and the background file exists; each stage runs at most once and in
\* order, a finished run has run the three fixed stages, and the buffer is
\* always the one the last stage that ran produced (a skipped optional
\* stage leaves it alone).
C1_RadioOrder ==
    (effect_type = "radio" /\ InPreset) =>
        /\ \E r \in RadioRuns : IsPrefix(trace, r)
        /\ pc \in {"write", "done"} => trace \in RadioRuns
        /\ pc \in {"dust", "write", "done"} => IsPrefix(RadioStages, trace)
        /\ (\E i \in 1..Len(trace) : trace[i] = "degrade")
              => p.sample_rate < sr
        /\ (\E i \in 1..Len(trace) : trace[i] = "mix_background")
              => (p.use_dust_effect /\ DustPath \in fs)
        /\ audio = prev_out

\* C1 witness: a finished radio run in which both optional stages ran
C1_Witness ==
    /\ pc = "done"
    /\ effect_type = "radio"
    /\ trace = RadioStages \o <<"degrade", "mix_background">>

WalkieStages ==
    <<"highpass", "lowpass", "compress", "distort", "bitcrush",
      "add_ptt_clicks", "add_noise", "add_static">>

\* C2: in every walkie invocation the stages run in the order highpass,
\* lowpass, compress, distort, bitcrush, add_ptt_clicks, add_noise,
\* add_static, each once; a finished run has run all eight; and each stage
\* consumed exactly the buffer the stage before it produced.
C2_WalkieOrder ==
    (effect_type = "walkie" /\ InPreset) =>
        /\ IsPrefix(trace, WalkieStages)
        /\ pc \in {"write", "done"} => trace = WalkieStages
        /\ trace # <<>> => stage_in = handed
        /\ audio = prev_out

\* C2 witness: a finished walkie run on a signal that is not silence
C2_Witness ==
    /\ pc = "done"
    /\ effect_type = "walkie"
    /\ trace = WalkieStages
    /\ Peak(input0) > 0
    /\ audio # input0

\* C3: a transformation requested with an effect name other than "radio"
\* or "walkie" fails with an error before any stage runs; no buffer is
\* returned and no output file is written.
C3_UnknownEffect ==
    (effect_type \notin {"radio", "walkie"} /\ InPreset) =>
        /\ pc = "failed"
        /\ err = "ValueError"
        /\ trace = <<>>
        /\ ~returned
        /\ ~out_written

\* C3 witness: the call with effect "fm" has failed
C3_Witness == pc = "failed" /\ effect_type = "fm" /\ err = "ValueError"

\* the claim's default tables (thousandths for the real-valued ones)
C4_RadioTable ==
    [low_cutoff |-> 300, high_cutoff |-> 3000, distortion_amount |-> 1200,
     noise_factor |-> 8, sample_rate |-> 8000, dust_level |-> 200,
     use_dust_effect |-> TRUE]

C4_WalkieTable ==
    [low_cutoff |-> 300, high_cutoff |-> 4000, distortion_amount |-> 1050,
     noise_factor |-> 10, static_level |-> 30, compression_ratio |-> 8000,
     attack_ms |-> 5, release_ms |-> 150, bit_depth |-> 8]

\* C4 (as claimed): for each preset and every override map, each parameter
\* of the preset's table resolves to the caller's value when the name is in
\* the map and to the table default otherwise, and a name outside the table
\* changes no resolved value and causes no failure: once the preset is
\* called its parameters are resolved, whatever names the map holds.
C4_AsClaimed ==
    (effect_type \in {"radio", "walkie"} /\ InPreset) =>
        LET table == IF effect_type = "radio" THEN C4_RadioTable
                     ELSE C4_WalkieTable
        IN  /\ err # "TypeError"
            /\ DOMAIN p = DOMAIN table
            /\ \A n \in DOMAIN table :
                  p[n] = IF n \in DOMAIN style_params THEN style_params[n]
                         ELSE table[n]

\* C5 (as claimed): for both presets, every input with samples in [-1, 1],
\* every parameter choice and every noise draw, the returned buffer has
\* peak absolute amplitude at most 1.0.
C5_PeakBounded ==
    (pc = "done" /\ Peak(input0) <= One) => Peak(audio) <= One

\* C6: when a filter cutoff is outside its valid domain (band-pass: not
\* 0 < low < high < sr/2; high-pass, low-pass: not 0 < cutoff < sr/2) the
\* invocation fails with an error: the filter stage and every later stage
\* do not run, no buffer is returned and no output file is written.
C6_InvalidCutoff ==
    /\ ( /\ effect_type = "radio"
         /\ p # NoParams
         /\ ~(0 < p.low_cutoff /\ p.low_cutoff < p.high_cutoff
                /\ 2 * p.high_cutoff < sr) )
       => /\ pc \in {"bandpass", "failed"}
          /\ pc = "failed" => err = "ValueError"
          /\ trace = <<>> /\ ~returned /\ ~out_written
    /\ ( /\ effect_type = "walkie"
         /\ p # NoParams
         /\ ~(0 < p.low_cutoff /\ 2 * p.low_cutoff < sr) )
       => /\ pc \in {"highpass", "failed"}
          /\ pc = "failed" => err = "ValueError"
          /\ trace = <<>> /\ ~returned /\ ~out_written
    /\ ( /\ effect_type = "walkie"
         /\ p # NoParams
         /\ ~(0 < p.high_cutoff /\ 2 * p.high_cutoff < sr) )
       => /\ pc \in {"highpass", "lowpass", "failed"}
          /\ pc = "failed" => err = "ValueError"
          /\ IsPrefix(trace, <<"highpass">>) /\ ~returned /\ ~out_written

\* C6 witness: radio with low_cutoff = 20000 and high_cutoff = 21000 at
\* 22050 Hz has failed
C6_Witness ==
    /\ pc = "failed"
    /\ effect_type = "radio"
    /\ err = "ValueError"
    /\ p # NoParams
    /\ p.low_cutoff = 20000 /\ p.high_cutoff = 21000
    /\ sr = 22050

\* C7: a radio invocation with use_dust_effect enabled and the background
\* file absent still succeeds: once the stages before mixing have run the
\* call cannot fail, mixing is skipped, one diagnostic (the warning) is
\* emitted, and the returned buffer is the one the last stage before mixing
\* produced, which is what the same run returns with use_dust_effect off.
C7_MissingDust ==
    ( /\ effect_type = "radio"
      /\ p # NoParams
      /\ p.use_dust_effect
      /\ DustPath \notin fs )
    => /\ IsPrefix(RadioStages, trace) => pc # "failed"
       /\ pc \in {"write", "done"} =>
             /\ returned
             /\ err = ""
             /\ Last(trace) \in {"add_noise", "degrade"}
             /\ audio = prev_out
             /\ diag = <<"Warning: Dust effect file not found">>
       /\ pc = "done" => out_written

\* C7 witness: such a run has finished, after degrading a signal
C7_Witness ==
    /\ pc = "done"
    /\ effect_type = "radio"
    /\ p.use_dust_effect
    /\ DustPath \notin fs
    /\ Last(trace) = "degrade"
    /\ Peak(audio) > 0
    /\ diag # <<>>

\* C8 (as amended): for every input buffer and every sample rate above
\* 6000 Hz, add_ptt_clicks returns a buffer whose length is the input
\* length plus exactly 2 * int(0.03 * sr) samples (the product truncated,
\* not rounded), with the original samples unchanged and contiguous between
\* the prepended and the appended click; the stage fails only at rates of
\* 6000 Hz or less, where its 800-3000 Hz band-pass cannot be designed.
C8_PttLength ==
    /\ (effect_type = "walkie" /\ trace # <<>>
            /\ Last(trace) = "add_ptt_clicks")
       => LET k == (3 * sr) \div 100
          IN  /\ sr > 6000
              /\ Len(prev_out) = Len(stage_in) + 2 * k
              /\ SubSeq(prev_out, k + 1, k + Len(stage_in)) = stage_in
    /\ (effect_type = "walkie" /\ pc = "failed" /\ trace # <<>>
            /\ Last(trace) = "bitcrush")
       => sr <= 6000

\* C8 witness: the clicks were added to a signal at 22050 Hz, where
\* 0.03 * sr = 661.5
C8_Witness ==
    /\ pc = "w_noise"
    /\ sr = 22050
    /\ Peak(stage_in) > 0
    /\ Len(stage_in) = LongLen
    /\ Len(audio) = LongLen + 2 * 661

\* C8 (as claimed): add_ptt_clicks returns a buffer whose length is the
\* input length plus exactly 2 * round(0.03 * sr) samples, with the
\* original samples unchanged and contiguous between the two clicks.
C8_AsClaimed ==
    (effect_type = "walkie" /\ trace # <<>> /\ Last(trace) = "add_ptt_clicks")
    => LET k == RoundHalfEven(3 * sr, 100)
       IN  /\ Len(prev_out) = Len(stage_in) + 2 * k
           /\ SubSeq(prev_out, k + 1, k + Len(stage_in)) = stage_in

C9_LengthPreserving ==
    {"bandpass", "highpass", "lowpass", "distort", "add_noise", "add_static",
     "degrade", "mix_background"}

\* C9 (as claimed): every length-preserving stage returns a buffer of
\* exactly the input length, in particular degrade for every buffer length
\* and every target_sr < sr, and mix_background for every background
\* length, the empty one included (so that with the file present the mix
\* always returns).
C9_LengthPreserved ==
    /\ (trace # <<>> /\ Last(trace) \in C9_LengthPreserving)
       => Len(prev_out) = Len(stage_in)
    /\ ( /\ effect_type = "radio"
         /\ pc \in {"write", "done"}
         /\ p.use_dust_effect
         /\ DustPath \in fs )
       => Last(trace) = "mix_background"

\* C10 (as claimed): bitcrush called with a bit depth that is zero,
\* negative or above the buffer's precision (32-bit samples) fails instead
\* of returning a buffer, and in the walkie preset aborts the invocation.
C10_BitDepthChecked ==
    ( /\ effect_type = "walkie"
      /\ p # NoParams
      /\ p.bit_depth \notin 1..32 )
    => /\ \A i \in 1..Len(trace) : trace[i] # "bitcrush"
       /\ ~returned
       /\ ~out_written

\* the compressor ran last in a walkie invocation
C11_Compressed ==
    effect_type = "walkie" /\ trace # <<>> /\ Last(trace) = "compress"

\* C11 (as claimed): in compress, attack_samples and release_samples are
\* the attack and release times in milliseconds converted to sample counts
\* at the sample rate of the buffer being processed, whatever that rate is.
C11_SamplesAtBufferRate ==
    C11_Compressed =>
        /\ comp.attack = TruncDiv(sr * p.attack_ms, 1000)
        /\ comp.release = TruncDiv(sr * p.release_ms, 1000)

\* every sample of x has the same absolute level, above the threshold
C12_ConstantAbove(x) ==
    /\ x # <<>>
    /\ \A i \in 1..Len(x) : Abs(x[i]) = Abs(x[1])
    /\ above_threshold(Abs(x[1]))

\* C12 (as claimed): for a constant input whose absolute level is above the
\* threshold, the gain envelope moves monotonically toward 1 - g (it never
\* gets farther from it) and equals 1 - g after at most
\* max(attack_samples, release_samples) samples, for every ratio and every
\* attack/release setting with which the stage returns.
C12_EnvelopeConverges ==
    (C11_Compressed /\ C12_ConstantAbove(stage_in)) =>
        LET e == comp.gain_envelope
            target == GainOne
                        - gain_reduction(Abs(stage_in[1]), p.compression_ratio)
        IN  /\ \A i \in 1..(Len(e) - 1) :
                  Abs(e[i + 1] - target) <= Abs(e[i] - target)
            /\ \A i \in 1..Len(e) :
                  i > Max2(comp.attack, comp.release) => e[i] = target

\* C13 (as claimed): a transformation call changes no persistent state
\* other than its output file: in every step of every radio or walkie
\* invocation, with the background file present or absent, the set of
\* existing files and directories stays what it was.
C13_FilesUnchanged == [][fs' = fs /\ dust_len' = dust_len]_vars

\* the server is handling, or has just answered, a transform request
C14_Transforming ==
    program = "server" /\ req.handler \in {"transform", "transform_url"}

\* C14 (as claimed): a radio request sent to the server whose style_params
\* holds dust_level and use_dust_effect has those values applied by the
\* radio preset: it resolves dust_level and use_dust_effect to the values
\* of the request, and with use_dust_effect false the background is not
\* mixed.
C14_DustParamsApplied ==
    ( /\ C14_Transforming
      /\ req.effect = "radio"
      /\ {"dust_level", "use_dust_effect"} \subseteq DOMAIN req.body
      /\ p # NoParams )
    => /\ p.dust_level = req.body.dust_level
       /\ p.use_dust_effect = req.body.use_dust_effect
       /\ ~req.body.use_dust_effect
             => \A i \in 1..Len(trace) : trace[i] # "mix_background"

\* C15 (as claimed): after a successful transform its MP3 result stays
\* downloadable until its own cleanup delay has elapsed: while the cleanup
\* thread of the latest transform that wrote a result is still asleep, that
\* result exists and is the one this transform wrote, whatever the
\* interleaving of transforms and cleanup threads.
C15_ResultKept ==
    \A i \in 1..Len(timers) :
        (\A j \in (i + 1)..Len(timers) :
            timers[j].output # timers[i].output)
        => mp3[timers[i].output] = timers[i].by

\* C16 (as claimed): when transform_url's download of the remote file
\* returns a status other than 200, the request is answered with status
\* 400, no processing stage runs, and no upload or result file of that
\* request remains.
C16_DownloadRejected ==
    ( /\ program = "server"
      /\ req.handler = "transform_url"
      /\ req.url_status \notin {0, 200} )
    => /\ pc = "idle"
       /\ response = 400
       /\ trace = <<>>
       /\ req.file_id \notin uploads
       /\ \A n \in ResultNames : n[1] = req.file_id => mp3[n] = 0

=============================================================================
